---- MODULE Spec2Model ----
(***************************************************************************)
(* A model of ru/utils.py of readfish: the flowcell geometry (get_coords,  *)
(* get_flowcell_array, generate_flowcell), the target parser (get_targets) *)
(* and the run-info builder (get_run_info).                                *)
(*                                                                         *)
(* Python values are modelled as follows.  A call's outcome is a record    *)
(* [ok |-> TRUE, val |-> v] (a return) or [ok |-> FALSE, err |-> e,        *)
(* msg |-> m] (a raised exception).  A list is a sequence (1-based), a     *)
(* numpy array is a function over 0..R-1 of functions over 0..C-1, a str   *)
(* is a sequence of one-character strings, a dict is a function whose      *)
(* DOMAIN is its key set.                                                  *)
(***************************************************************************)
EXTENDS Integers, Sequences, FiniteSets, TLC

VARIABLES toml_dict, op, args, ret

vars == <<toml_dict, op, args, ret>>

\* A returned value and a raised exception.
Return(v) == [ok |-> TRUE, val |-> v]
Raise(e, m) == [ok |-> FALSE, err |-> e, msg |-> m]

Min(S) == CHOOSE m \in S : \A x \in S : m <= x
Max(S) == CHOOSE m \in S : \A x \in S : m >= x

(***************************************************************************)
(* Flowcell geometry                                                       *)
(***************************************************************************)

\* The flowcell sizes get_coords recognises.
PROMETHION == 3000
FLONGLE == 126
MINION == 512

\* ru/channels.py is not part of the sources at hand.  The two tables are
\* modelled from what the documentation fixes: one (column, row) per channel,
\* no coordinate used twice, a 13 x 10 grid for the Flongle (so four cells
\* stay empty, one of them the last column of row 0) and a full 32 x 16 grid
\* for the MinION with channel 1 in the last column of row 0.
FLONGLE_CHANNELS == [ch \in 1..126 |-> <<12 - ((ch + 3) % 13), (ch + 3) \div 13>>]
MINION_CHANNELS == [ch \in 1..512 |-> <<31 - ((ch - 1) \div 16), (ch - 1) % 16>>]

\* Mutant of get_coords: the column offset of a PromethION block is dropped.
get_coords_noblock(channel, flowcell_size) ==
    IF channel <= 0 \/ channel > flowcell_size
    THEN Raise("ValueError", "channel cannot be below 0 or above flowcell_size")
    ELSE IF flowcell_size = PROMETHION
    THEN LET remainder == (channel - 1) % 250
             row == remainder \div 10
             column == remainder % 10
         IN Return(<<column, row>>)
    ELSE IF flowcell_size = FLONGLE THEN Return(FLONGLE_CHANNELS[channel])
    ELSE IF flowcell_size = MINION THEN Return(MINION_CHANNELS[channel])
    ELSE Raise("ValueError", "flowcell_size is not recognised")

get_coords(channel, flowcell_size) ==
    IF channel <= 0 \/ channel > flowcell_size
    THEN Raise("ValueError", "channel cannot be below 0 or above flowcell_size")
    ELSE IF flowcell_size = PROMETHION
    THEN LET block == (channel - 1) \div 250
             remainder == (channel - 1) % 250
             row == remainder \div 10
             column == (remainder % 10) + block * 10
         IN Return(<<column, row>>)
    ELSE IF flowcell_size = FLONGLE THEN Return(FLONGLE_CHANNELS[channel])
    ELSE IF flowcell_size = MINION THEN Return(MINION_CHANNELS[channel])
    ELSE Raise("ValueError", "flowcell_size is not recognised")

\* np.zeros((rows, cols), dtype=int)
Zeros(rows, cols) == [r \in 0..(rows - 1) |-> [c \in 0..(cols - 1) |-> 0]]

\* The loop "for col, row, chan in coords: b[row][col] += chan" over the
\* channels lo..hi in ascending order (coords[x] is channel x's (column, row)).
RECURSIVE FillArray(_, _, _, _)
FillArray(b, coords, lo, hi) ==
    IF lo > hi THEN b
    ELSE IF lo = hi
    THEN LET col == coords[lo][1]
             row == coords[lo][2]
         IN [b EXCEPT ![row][col] = @ + lo]
    ELSE LET mid == (lo + hi) \div 2
             done == FillArray(b, coords, lo, mid)
         IN \* the first half of the loop is run before the second half starts
            IF DOMAIN done = DOMAIN b
            THEN FillArray(done, coords, mid + 1, hi)
            ELSE done

\* b[::-1]
ReverseRows(b) ==
    LET rows == Cardinality(DOMAIN b)
    IN [r \in 0..(rows - 1) |-> b[rows - 1 - r]]

\* Mutant of get_flowcell_array: the array is returned without reversing its rows.
get_flowcell_array_unreversed(flowcell_size) ==
    LET calls == [x \in 1..flowcell_size |-> get_coords(x, flowcell_size)]
        failing == {x \in 1..flowcell_size : ~calls[x].ok}
    IN IF failing # {} THEN calls[Min(failing)]
       ELSE IF flowcell_size < 1
       THEN Raise("ValueError", "max() arg is an empty sequence")
       ELSE LET coords == [x \in 1..flowcell_size |-> calls[x].val]
                rows == Max({coords[x][2] : x \in 1..flowcell_size}) + 1
                cols == Max({coords[x][1] : x \in 1..flowcell_size}) + 1
                b == FillArray(Zeros(rows, cols), coords, 1, flowcell_size)
            IN Return(b)

get_flowcell_array(flowcell_size) ==
    LET calls == [x \in 1..flowcell_size |-> get_coords(x, flowcell_size)]
        failing == {x \in 1..flowcell_size : ~calls[x].ok}
    IN IF failing # {} THEN calls[Min(failing)]
       ELSE IF flowcell_size < 1
       THEN Raise("ValueError", "max() arg is an empty sequence")
       ELSE LET coords == [x \in 1..flowcell_size |-> calls[x].val]
                rows == Max({coords[x][2] : x \in 1..flowcell_size}) + 1
                cols == Max({coords[x][1] : x \in 1..flowcell_size}) + 1
                b == FillArray(Zeros(rows, cols), coords, 1, flowcell_size)
            IN Return(ReverseRows(b))

\* arr.shape of a two-dimensional array
Shape(arr) == <<Cardinality(DOMAIN arr), Cardinality(DOMAIN arr[0])>>

\* list(range(start, stop, 2))
RangeStep2(start, stop) ==
    LET n == IF stop > start THEN (stop - start + 1) \div 2 ELSE 0
    IN [i \in 1..n |-> start + 2 * (i - 1)]

\* np.array(np.split(arr, split, axis=axis)) for an even division: section i
\* (0-based) is the i-th run of shape[axis] / split rows (axis 0) or columns
\* (axis 1).
SplitArray(arr, split, axis) ==
    LET rows == Shape(arr)[1]
        cols == Shape(arr)[2]
    IN IF axis = 0
       THEN LET h == rows \div split
            IN [i \in 0..(split - 1) |->
                   [r \in 0..(h - 1) |-> [c \in 0..(cols - 1) |-> arr[i * h + r][c]]]]
       ELSE LET w == cols \div split
            IN [i \in 0..(split - 1) |->
                   [r \in 0..(rows - 1) |-> [c \in 0..(w - 1) |-> arr[r][i * w + c]]]]

\* arr.shape = (shape[0], shape[1] * shape[2]) followed by tolist(): each
\* section is read row by row.
FlattenSections(sections) ==
    LET n == Cardinality(DOMAIN sections)
        rows == Cardinality(DOMAIN sections[0])
        cols == Cardinality(DOMAIN sections[0][0])
    IN [i \in 1..n |->
           [j \in 1..(rows * cols) |->
               sections[i - 1][(j - 1) \div cols][(j - 1) % cols]]]

generate_flowcell(flowcell_size, split, axis, odd_even) ==
    IF odd_even
    THEN Return(<<RangeStep2(1, flowcell_size + 1), RangeStep2(2, flowcell_size + 1)>>)
    ELSE LET arr == get_flowcell_array(flowcell_size)
         IN IF ~arr.ok THEN arr
            ELSE IF split <= 0
            THEN Raise("ValueError", "split must be a positive integer")
            ELSE IF Shape(arr.val)[axis + 1] % split # 0
            THEN Raise("ValueError", "The flowcell cannot be split evenly")
            ELSE Return(FlattenSections(SplitArray(arr.val, split, axis)))

(***************************************************************************)
(* Target descriptors                                                      *)
(***************************************************************************)

\* The characters of the modelled strings, in increasing code point order.
Alphabet ==
    <<"+", ",", "-", "0", "1", "2", "3", "4", "5", "6", "7", "8", "9",
      "_", "a", "b", "c", "d", "e", "f", "g", "h", "i", "j", "k", "l", "m",
      "n", "o", "p", "q", "r", "s", "t", "u", "v", "w", "x", "y", "z">>
Ord(c) == CHOOSE i \in 1..Len(Alphabet) : Alphabet[i] = c
Digits == {"0", "1", "2", "3", "4", "5", "6", "7", "8", "9"}
DigitValue(c) == Ord(c) - Ord("0")

\* Numbers: a Python int, and float("inf").
IntValue(n) == [t |-> "int", v |-> n]
Infinity == [t |-> "inf", v |-> 0]

\* item.split(","): the pieces between the commas, empty pieces included.
SplitComma(item) ==
    LET commas == {i \in 1..Len(item) : item[i] = ","}
        n == Cardinality(commas)
        comma(k) == CHOOSE i \in commas : Cardinality({j \in commas : j < i}) = k - 1
        first(k) == IF k = 1 THEN 1 ELSE comma(k - 1) + 1
        last(k) == IF k = n + 1 THEN Len(item) ELSE comma(k) - 1
    IN [k \in 1..(n + 1) |-> SubSeq(item, first(k), last(k))]

\* The value of a run of decimal digits.
RECURSIVE DigitsValue(_)
DigitsValue(ds) ==
    IF ds = <<>> THEN 0
    ELSE 10 * DigitsValue(SubSeq(ds, 1, Len(ds) - 1)) + DigitValue(ds[Len(ds)])

\* int(x) of a str: an optional sign and at least one decimal digit.
ParseInt(x) ==
    LET signed == x # <<>> /\ x[1] \in {"+", "-"}
        ds == IF signed THEN Tail(x) ELSE x
    IN IF ds = <<>> \/ \E i \in 1..Len(ds) : ds[i] \notin Digits
       THEN Raise("ValueError", "invalid literal for int() with base 10")
       ELSE Return(IF signed /\ x[1] = "-" THEN 0 - DigitsValue(ds) ELSE DigitsValue(ds))

\* t[strand][ctg].append(interval) on a defaultdict of defaultdicts of lists:
\* a key that is not there yet is created on the way.
AppendInterval(t, strand, ctg, interval) ==
    LET contigs == IF strand \in DOMAIN t THEN t[strand] ELSE <<>>
        intervals == IF ctg \in DOMAIN contigs THEN contigs[ctg] ELSE <<>>
        updated == [c \in DOMAIN contigs \cup {ctg} |->
                       IF c = ctg THEN Append(intervals, interval) ELSE contigs[c]]
    IN [s \in DOMAIN t \cup {strand} |-> IF s = strand THEN updated ELSE t[s]]

\* Mutant of ParseItem: an interval replaces the contig's list instead of
\* being appended to it.
ParseItemOverwrite(t, item) ==
    LET pieces == SplitComma(item)
        ctg == pieces[1]
        coords == Tail(pieces)
    IN IF coords # <<>>
       THEN LET strand == coords[Len(coords)]
                rest == SubSeq(coords, 1, Len(coords) - 1)
                ints == [i \in 1..Len(rest) |-> ParseInt(rest[i])]
                failing == {i \in 1..Len(rest) : ~ints[i].ok}
            IN IF failing # {} THEN ints[Min(failing)]
               ELSE Return([s \in DOMAIN t \cup {strand} |->
                               IF s = strand
                               THEN [c \in (IF s \in DOMAIN t THEN DOMAIN t[s] ELSE {}) \cup {ctg} |->
                                        IF c = ctg
                                        THEN <<[i \in 1..Len(rest) |-> IntValue(ints[i].val)]>>
                                        ELSE t[s][c]]
                               ELSE t[s]])
       ELSE Return(AppendInterval(AppendInterval(t, <<"+">>, ctg, <<IntValue(0), Infinity>>),
                                  <<"-">>, ctg, <<IntValue(0), Infinity>>))

\* Mutant of ParseItem: the strand is popped from the front of the pieces.
ParseItemPopFirst(t, item) ==
    LET pieces == SplitComma(item)
        ctg == pieces[1]
        coords == Tail(pieces)
    IN IF coords # <<>>
       THEN LET strand == coords[1]
                rest == Tail(coords)
                ints == [i \in 1..Len(rest) |-> ParseInt(rest[i])]
                failing == {i \in 1..Len(rest) : ~ints[i].ok}
            IN IF failing # {} THEN ints[Min(failing)]
               ELSE Return(AppendInterval(t, strand, ctg,
                                          [i \in 1..Len(rest) |-> IntValue(ints[i].val)]))
       ELSE Return(AppendInterval(AppendInterval(t, <<"+">>, ctg, <<IntValue(0), Infinity>>),
                                  <<"-">>, ctg, <<IntValue(0), Infinity>>))

\* One turn of the loop of get_targets over the descriptor item.
ParseItem(t, item) ==
    LET pieces == SplitComma(item)
        ctg == pieces[1]
        coords == Tail(pieces)
    IN IF coords # <<>>
       THEN LET strand == coords[Len(coords)]
                rest == SubSeq(coords, 1, Len(coords) - 1)
                ints == [i \in 1..Len(rest) |-> ParseInt(rest[i])]
                failing == {i \in 1..Len(rest) : ~ints[i].ok}
            IN IF failing # {} THEN ints[Min(failing)]
               ELSE Return(AppendInterval(t, strand, ctg,
                                          [i \in 1..Len(rest) |-> IntValue(ints[i].val)]))
       ELSE Return(AppendInterval(AppendInterval(t, <<"+">>, ctg, <<IntValue(0), Infinity>>),
                                  <<"-">>, ctg, <<IntValue(0), Infinity>>))

\* The loop "for item in targets" from the map t on; the first descriptor that
\* cannot be parsed ends it with its error.
RECURSIVE ParseItems(_, _)
ParseItems(t, items) ==
    IF items = <<>> THEN Return(t)
    ELSE LET step == ParseItem(t, Head(items))
         IN IF ~step.ok THEN step ELSE ParseItems(step.val, Tail(items))

\* What "for item in targets" iterates over.  targets is a list of descriptors
\* ([type |-> "list"]), a str ([type |-> "str"]: the lines of the file of that
\* name if there is one, and else the characters of the str itself) or, once
\* get_run_info has rewritten it, a set of contig names ([type |-> "set"]),
\* which iterates in the order given by the sequence order.
Items(targets, is_file, lines, order) ==
    IF targets.type = "str"
    THEN IF is_file THEN lines ELSE [i \in 1..Len(targets.v) |-> <<targets.v[i]>>]
    ELSE IF targets.type = "set" THEN order
    ELSE targets.v

get_targets(targets, is_file, lines, order) ==
    ParseItems(<<>>, Items(targets, is_file, lines, order))

(***************************************************************************)
(* The run-info builder                                                    *)
(*                                                                         *)
(* The "conditions" table is a dict in insertion order: a sequence of      *)
(* <<key, value>> pairs, the keys strs.  A value carries its Python type:  *)
(* [type |-> "dict", v |-> fields] for a condition (fields a function from *)
(* field names to values), [type |-> "bool"], [type |-> "int"] and         *)
(* [type |-> "str"] for the scalars, [type |-> "list", v |-> descriptors]  *)
(* and [type |-> "set", elems |-> names] for a condition's targets,        *)
(* [type |-> "targets", map |-> m] for its coords.                         *)
(***************************************************************************)

None == [type |-> "NoneType"]

\* The control keys of the "conditions" table.
MaintainOrderKey == <<"m", "a", "i", "n", "t", "a", "i", "n", "_", "o", "r", "d", "e", "r">>
AxisKey == <<"a", "x", "i", "s">>
ReferenceKey == <<"r", "e", "f", "e", "r", "e", "n", "c", "e">>

HasKey(d, k) == \E i \in 1..Len(d) : d[i][1] = k
\* d[k] for a key that is there
Lookup(d, k) == d[CHOOSE i \in 1..Len(d) : d[i][1] = k][2]
\* d.get(k, default)
Get(d, k, default) == IF HasKey(d, k) THEN Lookup(d, k) ELSE default
\* list(d.keys())
Keys(d) == [i \in 1..Len(d) |-> d[i][1]]
\* d[k] = value for a key that is there: the key keeps its place
Store(d, k, value) == [i \in 1..Len(d) |-> IF d[i][1] = k THEN <<k, value>> ELSE d[i]]

\* The keys whose value is a dict, in the order of keys.
StructuredKeys(d, keys) ==
    SelectSeq(keys, LAMBDA k : Lookup(d, k).type = "dict")

\* a < b for two strs: the first differing character decides by code point,
\* and a proper prefix comes first.
StrLess(a, b) ==
    \/ /\ Len(a) < Len(b)
       /\ \A i \in 1..Len(a) : a[i] = b[i]
    \/ \E i \in 1..Min({Len(a), Len(b)}) :
          /\ \A j \in 1..(i - 1) : a[j] = b[j]
          /\ Ord(a[i]) < Ord(b[i])

\* sorted(L) for a list of distinct strs
Sorted(L) ==
    LET rank(k) == Cardinality({i \in 1..Len(L) : StrLess(L[i], k)}) + 1
    IN [r \in 1..Len(L) |-> L[CHOOSE i \in 1..Len(L) : rank(L[i]) = r]]

\* sorted(L, key=lambda k: random()): the keys in the order the drawn numbers
\* put them, position r taking L[perm[r]].
Shuffled(L, perm) == [r \in 1..Len(L) |-> L[perm[r]]]

\* bool(value)
Truthy(value) ==
    IF value.type = "bool" THEN value.v
    ELSE IF value.type = "int" THEN value.v # 0
    ELSE value.v # <<>>

\* A set's elements in the order one run iterates over them: ascending for
\* seed 0, descending for seed 1 (the order is not fixed by the language).
SetOrder(S, seed) ==
    LET n == Cardinality(S)
        rank(k) == Cardinality({j \in S : StrLess(j, k)}) + 1
        ascending == [r \in 1..n |-> CHOOSE k \in S : rank(k) = r]
    IN IF seed = 0 THEN ascending ELSE [r \in 1..n |-> ascending[n + 1 - r]]

\* The contig names of a target map: set(_t) after the loop over the strands.
ContigNames(coords) == UNION {DOMAIN coords[strand] : strand \in DOMAIN coords}

\* The body of the loop "for k in conditions" of get_run_info for the
\* condition k of the table d, parsed being what get_targets made of its
\* targets: the condition gets the map as coords and has its targets replaced
\* by the set of the map's contig names.
WithCoords(d, k, parsed) ==
    LET cond == Lookup(d, k).v
        updated == [f \in DOMAIN cond \cup {"coords"} |->
                       IF f = "coords" THEN [type |-> "targets", map |-> parsed]
                       ELSE IF f = "targets"
                       THEN [type |-> "set", elems |-> ContigNames(parsed)]
                       ELSE cond[f]]
    IN Store(d, k, [type |-> "dict", v |-> updated])

\* get_targets(cond["targets"]) for the value targets, a set being iterated
\* over in the order seed gives.
ParseTargets(targets, seed) ==
    get_targets(targets, FALSE, <<>>,
                IF targets.type = "set" THEN SetOrder(targets.elems, seed) ELSE <<>>)

\* The loop "for k in conditions" of get_run_info from the table d on.  The
\* outcome carries the table as the loop left it.
RECURSIVE ConvertTargets(_, _, _)
\* The loop once the targets of its first condition are parsed.
ConvertNext(d, conditions, seed, parsed) ==
    IF ~parsed.ok
    THEN [ok |-> FALSE, err |-> parsed.err, msg |-> parsed.msg, table |-> d]
    ELSE ConvertTargets(WithCoords(d, Head(conditions), parsed.val),
                        Tail(conditions), seed)

ConvertTargets(d, conditions, seed) ==
    IF conditions = <<>> THEN [ok |-> TRUE, table |-> d]
    ELSE IF "targets" \notin DOMAIN Lookup(d, Head(conditions)).v
    THEN [ok |-> FALSE, err |-> "KeyError", msg |-> "targets", table |-> d]
    ELSE ConvertNext(d, conditions, seed,
                     ParseTargets(Lookup(d, Head(conditions)).v["targets"], seed))

\* named_tuple_generator(dictionary): a tuple with one field per key.
named_tuple_generator(dictionary) == dictionary

\* The dict comprehension over enumerate(zip(split_channels,
\* split_conditions)), from the pair at index pos on: every channel of a group
\* is given the group's index, a channel met again taking the later index.
RECURSIVE RunInfoFrom(_, _, _, _)
RunInfoFrom(run_info, split_channels, split_conditions, pos) ==
    IF pos >= Len(split_channels) \/ pos >= Len(split_conditions) THEN run_info
    ELSE LET channels == {split_channels[pos + 1][j] : j \in 1..Len(split_channels[pos + 1])}
             updated == [channel \in DOMAIN run_info \cup channels |->
                            IF channel \in channels THEN pos ELSE run_info[channel]]
         IN RunInfoFrom(updated, split_channels, split_conditions, pos + 1)

\* split_conditions: one tuple per condition of the table done, in the
\* order sort_func puts the keys in.
SplitConditions(done, maintain_order, perm) ==
    LET ordered == IF maintain_order THEN Sorted(Keys(done))
                   ELSE Shuffled(Keys(done), perm)
        kept == StructuredKeys(done, ordered)
    IN [i \in 1..Len(kept) |-> named_tuple_generator(Lookup(done, kept[i]).v)]

\* The end of get_run_info, from the list of named tuples on.
RunInfoResult(done, split_channels, split_conditions) ==
    Return([run_info |-> RunInfoFrom(<<>>, split_channels, split_conditions, 0),
            split_conditions |-> split_conditions,
            reference |-> Get(done, ReferenceKey, None)])

\* get_run_info after the loop over the conditions, converted being the
\* loop's outcome.
AfterConversion(config, split_channels, converted, maintain_order, perm) ==
    [ret |-> IF ~converted.ok THEN Raise(converted.err, converted.msg)
             ELSE RunInfoResult(converted.table, split_channels,
                                SplitConditions(converted.table, maintain_order, perm)),
     toml_dict |-> [config EXCEPT !["conditions"] = converted.table]]

\* get_run_info from the call of generate_flowcell on, split_channels being
\* that call's outcome.
AfterSplit(config, conditions, split_channels, seed, perm) ==
    IF ~split_channels.ok THEN [ret |-> split_channels, toml_dict |-> config]
    ELSE AfterConversion(config, split_channels.val,
                         ConvertTargets(config["conditions"], conditions, seed),
                         Truthy(Get(config["conditions"], MaintainOrderKey,
                                    [type |-> "bool", v |-> TRUE])),
                         perm)

\* get_run_info once the condition keys are listed.
WithConditions(config, conditions, num_channels, seed, perm) ==
    AfterSplit(config, conditions,
               generate_flowcell(num_channels, Len(conditions),
                                 Get(config["conditions"], AxisKey,
                                     [type |-> "int", v |-> 1]).v,
                                 FALSE),
               seed, perm)

\* get_run_info on a dict.  seed fixes the iteration order of sets and perm
\* the numbers random() draws.  The outcome (ret) is paired with the dict as
\* the call leaves it (toml_dict).
get_run_info(config, num_channels, seed, perm) ==
    IF "conditions" \notin DOMAIN config
    THEN [ret |-> Raise("KeyError", "conditions"), toml_dict |-> config]
    ELSE WithConditions(config,
                        StructuredKeys(config["conditions"], Keys(config["conditions"])),
                        num_channels, seed, perm)

(***************************************************************************)
(* The calls, as a state machine: a caller makes one call at a time (op,   *)
(* args), the call runs to its outcome (ret), and the caller takes the     *)
(* outcome before the next call.                                           *)
(***************************************************************************)

Idle == op = "idle"

\* The caller has read the outcome of the last call.
Finish ==
    /\ ~Idle
    /\ op' = "idle"
    /\ args' = <<>>
    /\ ret' = <<>>
    /\ UNCHANGED toml_dict

\* Inputs of the geometry calls.
MaxSplit == 13
FlowcellSizes == {FLONGLE, MINION, PROMETHION}
OtherSizes == {128}
Splits == ((-1)..MaxSplit) \cup {16, 25, 32, 120}
Axes == {0, 1}

CallGetCoords ==
    /\ Idle
    /\ \E flowcell_size \in FlowcellSizes \cup OtherSizes :
         \E channel \in (-1)..(flowcell_size + 1) :
            /\ op' = "get_coords"
            /\ args' = [channel |-> channel, flowcell_size |-> flowcell_size]
            /\ ret' = get_coords(channel, flowcell_size)
    /\ UNCHANGED toml_dict

CallGetFlowcellArray ==
    /\ Idle
    /\ \E flowcell_size \in FlowcellSizes \cup OtherSizes :
            /\ op' = "get_flowcell_array"
            /\ args' = [flowcell_size |-> flowcell_size]
            /\ ret' = get_flowcell_array(flowcell_size)
    /\ UNCHANGED toml_dict

CallGenerateFlowcell ==
    /\ Idle
    /\ \E flowcell_size \in FlowcellSizes \cup OtherSizes, split \in Splits,
          axis \in Axes, odd_even \in BOOLEAN :
            /\ op' = "generate_flowcell"
            /\ args' = [flowcell_size |-> flowcell_size, split |-> split,
                        axis |-> axis, odd_even |-> odd_even]
            /\ ret' = generate_flowcell(flowcell_size, split, axis, odd_even)
    /\ UNCHANGED toml_dict

InitFlowcell ==
    /\ toml_dict = <<>>
    /\ op = "idle"
    /\ args = <<>>
    /\ ret = <<>>

NextFlowcell ==
    \/ CallGetCoords
    \/ CallGetFlowcellArray
    \/ CallGenerateFlowcell
    \/ Finish

SpecFlowcell == InitFlowcell /\ [][NextFlowcell]_vars

(***************************************************************************)
(* Properties of the geometry calls                                        *)
(***************************************************************************)

\* The values of a list, as a set.
Range(list) == {list[i] : i \in 1..Len(list)}

\* The grid shapes (rows, columns) the documentation of get_flowcell_array
\* gives for the recognised sizes.
DocShape(flowcell_size) ==
    IF flowcell_size = FLONGLE THEN <<10, 13>>
    ELSE IF flowcell_size = MINION THEN <<16, 32>>
    ELSE <<25, 120>>

GenerateFlowcellDone == op = "generate_flowcell"

\* C1: whenever generate_flowcell succeeds on a recognised flowcell size (any
\* accepted split and axis, or odd_even), no value occurs twice in its groups
\* taken together (so the groups are pairwise disjoint and free of repeats)
\* and the values of the groups are exactly the channels 1..flowcell_size.
C1_GroupsCoverChannelsOnce ==
    (GenerateFlowcellDone /\ ret.ok /\ args.flowcell_size \in FlowcellSizes) =>
        LET groups == ret.val
            values == UNION {Range(groups[i]) : i \in 1..Len(groups)}
            total == IF Len(groups) = 0 THEN 0 ELSE Len(groups) * Len(groups[1])
            lengths == [i \in 1..Len(groups) |-> Len(groups[i])]
        IN /\ values = 1..args.flowcell_size
           /\ \A i \in 1..Len(groups) : Cardinality(Range(groups[i])) = lengths[i]
           /\ \A i, j \in 1..Len(groups) :
                 i # j => Range(groups[i]) \cap Range(groups[j]) = {}

\* The 1-based number of the block of the returned array that holds channel,
\* when the array is cut into split blocks along axis: the array's row is the
\* grid's row counted from the other end, its column the grid's column.
BlockOf(channel, flowcell_size, split, axis) ==
    LET xy == get_coords(channel, flowcell_size).val
        rows == DocShape(flowcell_size)[1]
        cols == DocShape(flowcell_size)[2]
    IN IF axis = 0
       THEN ((rows - 1 - xy[2]) \div (rows \div split)) + 1
       ELSE (xy[1] \div (cols \div split)) + 1

\* C3: without odd_even and with split > 0, generate_flowcell on a recognised
\* size succeeds exactly when split divides the number of rows (axis 0) or of
\* columns (axis 1); it then returns split groups of rows * cols / split
\* values each, the i-th group holding the channels of the i-th block along
\* the axis; otherwise it fails with "The flowcell cannot be split evenly".
C3_EvenSplitOrError ==
    (GenerateFlowcellDone /\ ~args.odd_even /\ args.split > 0
        /\ args.flowcell_size \in FlowcellSizes) =>
        LET shape == DocShape(args.flowcell_size)
        IN IF shape[args.axis + 1] % args.split = 0
           THEN /\ ret.ok
                /\ Len(ret.val) = args.split
                /\ \A i \in 1..Len(ret.val) :
                      /\ Len(ret.val[i]) = (shape[1] * shape[2]) \div args.split
                      /\ \A j \in 1..Len(ret.val[i]) :
                            ret.val[i][j] # 0 =>
                               BlockOf(ret.val[i][j], args.flowcell_size,
                                       args.split, args.axis) = i
           ELSE /\ ~ret.ok
                /\ ret.err = "ValueError"
                /\ ret.msg = "The flowcell cannot be split evenly"

\* C3 witness: generate_flowcell(512, split=4) has returned four groups of
\* 128 values.
C3_Witness ==
    /\ GenerateFlowcellDone
    /\ args = [flowcell_size |-> MINION, split |-> 4, axis |-> 1, odd_even |-> FALSE]
    /\ ret.ok
    /\ Len(ret.val) = 4
    /\ \A i \in 1..4 : Len(ret.val[i]) = 128

C9_InvalidSplitComesFirst ==
    (GenerateFlowcellDone /\ ~args.odd_even /\ args.split <= 0) =>
        /\ ~ret.ok
        /\ ret.msg = "split must be a positive integer"

(***************************************************************************)
(* Calls of get_targets                                                    *)
(***************************************************************************)

\* The descriptors the calls draw from: "a", "b", "a,1,2,+", "a,3,1,-",
\* "b,10,20,+", "a,1,2" (no strand) and "a,x,2,+" (not a number).
Descriptors ==
    { <<"a">>,
      <<"b">>,
      <<"a", ",", "1", ",", "2", ",", "+">>,
      <<"a", ",", "3", ",", "1", ",", "-">>,
      <<"b", ",", "1", "0", ",", "2", "0", ",", "+">>,
      <<"a", ",", "1", ",", "2">>,
      <<"a", ",", "x", ",", "2", ",", "+">> }

MaxTargets == 3
DescriptorLists == UNION {[1..n -> Descriptors] : n \in 0..MaxTargets}

\* A str given as targets: "ab" and "a,b", each with or without a file of
\* that name, whose lines are then one of the descriptor lists of length <= 1.
TargetStrs == {<<"a", "b">>, <<"a", ",", "b">>}
FileLines == UNION {[1..n -> Descriptors] : n \in 0..1}

CallGetTargetsList ==
    /\ Idle
    /\ \E targets \in DescriptorLists :
            /\ op' = "get_targets"
            /\ args' = [targets |-> [type |-> "list", v |-> targets]]
            /\ ret' = get_targets([type |-> "list", v |-> targets], FALSE, <<>>, <<>>)
    /\ UNCHANGED toml_dict

CallGetTargetsStr ==
    /\ Idle
    /\ \E targets \in TargetStrs, is_file \in BOOLEAN, lines \in FileLines :
            /\ is_file \/ lines = <<>>
            /\ op' = "get_targets"
            /\ args' = [targets |-> [type |-> "str", v |-> targets],
                        is_file |-> is_file, lines |-> lines]
            /\ ret' = get_targets([type |-> "str", v |-> targets], is_file, lines, <<>>)
    /\ UNCHANGED toml_dict

InitTargets ==
    /\ toml_dict = <<>>
    /\ op = "idle"
    /\ args = <<>>
    /\ ret = <<>>

NextTargets ==
    \/ CallGetTargetsList
    \/ CallGetTargetsStr
    \/ Finish

SpecTargets == InitTargets /\ [][NextTargets]_vars

(***************************************************************************)
(* Calls of get_run_info                                                   *)
(***************************************************************************)

\* str(n) for 0 <= n <= 99
DecimalStr(n) ==
    LET digit(d) == Alphabet[Ord("0") + d]
    IN IF n < 10 THEN <<digit(n)>> ELSE <<digit(n \div 10), digit(n % 10)>>

\* The configurations the calls start from have the conditions "0" .. str(k-1)
\* for a k up to MaxConditions, each with its key as name and with targets
\* after one of four patterns:
\*   "bare"       every condition has the targets ["a"];
\*   "stranded"   condition "0" has ["a,1,2,+", "b"], the others ["b"];
\*   "malformed"  the last condition has ["a,x,2,+"], the others ["a,1,2,+"];
\*   "no_targets" the last condition has no targets, the others ["a"].
MaxConditions == 12
Patterns == {"bare", "stranded", "malformed", "no_targets"}

TargetsOf(i, k, pattern) ==
    LET list(v) == [type |-> "list", v |-> v]
    IN IF pattern = "bare" THEN list(<< <<"a">> >>)
       ELSE IF pattern = "stranded"
       THEN IF i = 0 THEN list(<< <<"a", ",", "1", ",", "2", ",", "+">>, <<"b">> >>)
            ELSE list(<< <<"b">> >>)
       ELSE IF pattern = "malformed"
       THEN IF i = k - 1 THEN list(<< <<"a", ",", "x", ",", "2", ",", "+">> >>)
            ELSE list(<< <<"a", ",", "1", ",", "2", ",", "+">> >>)
       ELSE list(<< <<"a">> >>)

Condition(i, k, pattern) ==
    LET name == [type |-> "str", v |-> DecimalStr(i)]
    IN IF pattern = "no_targets" /\ i = k - 1
       THEN [type |-> "dict", v |-> [f \in {"name"} |-> name]]
       ELSE [type |-> "dict",
             v |-> [f \in {"name", "targets"} |->
                       IF f = "name" THEN name ELSE TargetsOf(i, k, pattern)]]

\* A configuration as toml.load gives it: the scalar keys of the table come
\* first, each present or ("absent") not, then the conditions in ascending
\* order.
MakeConfig(k, pattern, reference, maintain_order, axis) ==
    LET scalars ==
            (IF reference = "absent" THEN <<>>
             ELSE << <<ReferenceKey, [type |-> "str", v |-> <<"r", "e", "f">>]>> >>)
            \o (IF maintain_order = "absent" THEN <<>>
                ELSE << <<MaintainOrderKey,
                          [type |-> "bool", v |-> (maintain_order = "true")]>> >>)
            \o (IF axis = "absent" THEN <<>>
                ELSE << <<AxisKey, [type |-> "int", v |-> (IF axis = "0" THEN 0 ELSE 1)]>> >>)
        conditions == [i \in 1..k |-> <<DecimalStr(i - 1), Condition(i - 1, k, pattern)>>]
    IN [section \in {"conditions"} |-> scalars \o conditions]

\* Shuffled orders are drawn only over tables of at most MaxShuffled keys.
MaxShuffled == 4

\* The configurations a run starts from: no "conditions" section at all; every
\* number of conditions and pattern, with and without a reference, split
\* along the default axis or along axis 0; maintain_order and axis given
\* explicitly; and maintain_order false.
Configs ==
    {<<>>}
    \cup {MakeConfig(k, pattern, reference, "absent", axis) :
            k \in 0..MaxConditions, pattern \in Patterns,
            reference \in {"absent", "ref"}, axis \in {"absent", "0"}}
    \cup {MakeConfig(k, "bare", "ref", "true", "1") : k \in 1..2}
    \cup {MakeConfig(k, pattern, "ref", "false", "absent") :
            k \in 1..(MaxShuffled - 2), pattern \in {"bare", "stranded"}}

\* Whether the call draws random numbers to order the keys.
Shuffles(config) ==
    /\ "conditions" \in DOMAIN config
    /\ ~Truthy(Get(config["conditions"], MaintainOrderKey, [type |-> "bool", v |-> TRUE]))

\* The orders n drawn numbers can put n keys in.
DrawnOrders(n) == {p \in [1..n -> 1..n] : \A i, j \in 1..n : p[i] = p[j] => i = j}

\* Whether some condition's targets is a set (whose iteration order is open).
HasSetTargets(config) ==
    /\ "conditions" \in DOMAIN config
    /\ \E i \in 1..Len(config["conditions"]) :
          LET value == config["conditions"][i][2]
          IN /\ value.type = "dict"
             /\ "targets" \in DOMAIN value.v
             /\ value.v["targets"].type = "set"

\* The call has ended with the outcome out.
Returned(out) ==
    /\ ret' = out.ret
    /\ toml_dict' = out.toml_dict

CallGetRunInfo ==
    /\ Idle
    /\ \E num_channels \in FlowcellSizes \cup OtherSizes,
          seed \in (IF HasSetTargets(toml_dict) THEN {0, 1} ELSE {0}),
          perm \in (IF Shuffles(toml_dict)
                    THEN DrawnOrders(Len(toml_dict["conditions"])) ELSE {<<>>}) :
            /\ op' = "get_run_info"
            /\ args' = [toml_dict_or_filepath |-> toml_dict,
                        num_channels |-> num_channels]
            /\ Returned(get_run_info(toml_dict, num_channels, seed, perm))

InitRunInfo ==
    /\ toml_dict \in Configs
    /\ op = "idle"
    /\ args = <<>>
    /\ ret = <<>>

NextRunInfo ==
    \/ CallGetRunInfo
    \/ Finish

SpecRunInfo == InitRunInfo /\ [][NextRunInfo]_vars

(***************************************************************************)
(* Properties of get_targets                                               *)
(***************************************************************************)

Plus == <<"+">>
Minus == <<"-">>

\* The descriptors the last get_targets call has iterated over.
CallItems ==
    IF args.targets.type = "list" THEN args.targets.v
    ELSE Items(args.targets, args.is_file, args.lines, <<>>)

\* The forms of a descriptor: "contig", "contig,start,end,strand" with a
\* strand symbol, and "contig,start,end".
IsBare(item) == Len(SplitComma(item)) = 1
IsStranded(item) ==
    LET pieces == SplitComma(item)
    IN /\ Len(pieces) = 4
       /\ ParseInt(pieces[2]).ok
       /\ ParseInt(pieces[3]).ok
       /\ pieces[4] \in {Plus, Minus}
IsUnstranded(item) ==
    LET pieces == SplitComma(item)
    IN /\ Len(pieces) = 3
       /\ ParseInt(pieces[2]).ok
       /\ ParseInt(pieces[3]).ok

\* The intervals the descriptors of items give contig ctg on strand, in the
\* order of the descriptors.
RECURSIVE ExpectedIntervals(_, _, _)
ExpectedIntervals(items, strand, ctg) ==
    IF items = <<>> THEN <<>>
    ELSE LET pieces == SplitComma(Head(items))
             rest == ExpectedIntervals(Tail(items), strand, ctg)
         IN IF pieces[1] # ctg THEN rest
            ELSE IF Len(pieces) = 1 THEN <<<<IntValue(0), Infinity>>>> \o rest
            ELSE IF pieces[4] = strand
            THEN << <<IntValue(ParseInt(pieces[2]).val),
                      IntValue(ParseInt(pieces[3]).val)>> >> \o rest
            ELSE rest

\* C5: over descriptors of the forms "contig" and "contig,start,end,strand",
\* get_targets returns a map in which the list of a strand and contig is, in
\* descriptor order, (0, inf) for every descriptor naming only the contig and
\* (start, end) for every descriptor of that contig and strand; a strand and
\* contig that no descriptor gives an interval has no entry.
C5_IntervalsAccumulateInOrder ==
    (op = "get_targets"
        /\ \A i \in 1..Len(CallItems) : IsBare(CallItems[i]) \/ IsStranded(CallItems[i])) =>
        /\ ret.ok
        /\ DOMAIN ret.val \subseteq {Plus, Minus}
        /\ \A strand \in {Plus, Minus} :
              LET contigs == IF strand \in DOMAIN ret.val THEN ret.val[strand] ELSE <<>>
                  named == {SplitComma(CallItems[i])[1] : i \in 1..Len(CallItems)}
              IN /\ DOMAIN contigs \subseteq named
                 /\ \A ctg \in named :
                       LET expected == ExpectedIntervals(CallItems, strand, ctg)
                       IN IF expected = <<>> THEN ctg \notin DOMAIN contigs
                          ELSE ctg \in DOMAIN contigs /\ contigs[ctg] = expected

\* C5 witness: get_targets(["a", "a,3,1,-", "a,1,2,+"]) has returned
\* [(0, inf), (3, 1)] for "a" on "-" and [(0, inf), (1, 2)] for "a" on "+".
C5_Witness ==
    /\ op = "get_targets"
    /\ args.targets = [type |-> "list",
                       v |-> << <<"a">>,
                                <<"a", ",", "3", ",", "1", ",", "-">>,
                                <<"a", ",", "1", ",", "2", ",", "+">> >>]
    /\ ret.ok
    /\ ret.val[Minus][<<"a">>] =
          << <<IntValue(0), Infinity>>, <<IntValue(3), IntValue(1)>> >>
    /\ ret.val[Plus][<<"a">>] =
          << <<IntValue(0), Infinity>>, <<IntValue(1), IntValue(2)>> >>

\* The top-level keys of the returned map are strand symbols and every stored
\* interval is a pair of numbers.
StrandKeysAndPairs ==
    /\ ret.ok
    /\ DOMAIN ret.val \subseteq {Plus, Minus}
    /\ \A strand \in DOMAIN ret.val : \A ctg \in DOMAIN ret.val[strand] :
          \A k \in 1..Len(ret.val[strand][ctg]) :
             LET interval == ret.val[strand][ctg][k]
             IN /\ Len(interval) = 2
                /\ \A n \in 1..2 : interval[n].t \in {"int", "inf"}

RunInfoDone == op = "get_run_info"

\* The "conditions" table the call was given, the number of its conditions
\* and the blocks generate_flowcell cuts the flowcell into for them.
CallTable == args.toml_dict_or_filepath["conditions"]
CallConditions == Len(StructuredKeys(CallTable, Keys(CallTable)))
CallBlocks ==
    generate_flowcell(args.num_channels, CallConditions,
                      Get(CallTable, AxisKey, [type |-> "int", v |-> 1]).v, FALSE).val

\* Every value listed in block i (counted from 0), placeholders aside when
\* channels_only, is mapped by run_info to i.
BlocksMapped(blocks, run_info, channels_only) ==
    \A i \in 1..Len(blocks) : \A j \in 1..Len(blocks[i]) :
        (channels_only /\ blocks[i][j] = 0) \/ run_info[blocks[i][j]] = i - 1

\* C2: after a successful get_run_info with k conditions on num_channels
\* channels, the keys of run_info are exactly 1..num_channels, the k blocks
\* list each channel once, and every value listed in block i (counted from 0)
\* is mapped to i, an index in 0..k-1.
C2_RunInfoCoversChannels ==
    (RunInfoDone /\ ret.ok) =>
        /\ DOMAIN ret.val.run_info = 1..args.num_channels
        /\ LET blocks == CallBlocks
           IN /\ Len(blocks) = CallConditions
              /\ Len(blocks) * Len(blocks[1]) = args.num_channels
              /\ BlocksMapped(blocks, ret.val.run_info, FALSE)

\* C6: with maintain_order true or absent, a successful get_run_info lists the
\* conditions in the ascending natural order of their keys "0", "1", ... (the
\* i-th tuple is the condition of the i-th smallest key, which the
\* configurations give as its name), whatever the number of conditions, and
\* the channels of the i-th block are mapped to the index of that tuple.
C6_ConditionsInNaturalOrder ==
    (RunInfoDone /\ ret.ok /\ ~Shuffles(args.toml_dict_or_filepath)) =>
        /\ Len(ret.val.split_conditions) = CallConditions
        /\ \A i \in 1..CallConditions :
              ret.val.split_conditions[i]["name"].v = DecimalStr(i - 1)
        /\ BlocksMapped(CallBlocks, ret.val.run_info, TRUE)

\* A required field is absent from the configuration: the "conditions"
\* section, the targets of a condition, or the reference (absent from the top
\* level and from the "conditions" table alike).
MissingField(config) ==
    \/ "conditions" \notin DOMAIN config
    \/ ("reference" \notin DOMAIN config /\ ~HasKey(config["conditions"], ReferenceKey))
    \/ \E i \in 1..Len(config["conditions"]) :
          /\ config["conditions"][i][2].type = "dict"
          /\ "targets" \notin DOMAIN config["conditions"][i][2].v

\* C8: get_run_info on a configuration that lacks a required field returns no
\* result: it fails, with the error of the missing key (or, where the
\* flowcell cannot be split or a descriptor cannot be parsed either, with that
\* error).
C8_MissingFieldFails ==
    (RunInfoDone /\ MissingField(args.toml_dict_or_filepath)) =>
        /\ ~ret.ok
        /\ ret.err \in {"KeyError", "ValueError"}

\* C10: get_run_info leaves the configuration as it was given: after the
\* call, failed or not, every condition has the fields it had and the targets
\* it had.
C10_ConfigUnchanged ==
    (RunInfoDone /\ "conditions" \in DOMAIN args.toml_dict_or_filepath) =>
        /\ Keys(toml_dict["conditions"]) = Keys(CallTable)
        /\ \A i \in 1..Len(CallTable) :
              LET before == CallTable[i][2]
                  after == toml_dict["conditions"][i][2]
              IN before.type = "dict" =>
                    /\ DOMAIN after.v = DOMAIN before.v
                    /\ "targets" \in DOMAIN before.v =>
                          /\ after.v["targets"].type = before.v["targets"].type
                          /\ after.v["targets"] = before.v["targets"]

====
